---- MODULE Spec2Model ----
(***************************************************************************)
(* Movie "spin blade" battle (src/components/spin-blade.tsx): the seeded   *)
(* spawn, the fixed-timestep physics step, the requestAnimationFrame loop  *)
(* and the start / pause / reset controls.                                 *)
(*                                                                         *)
(* JavaScript numbers are modelled in fixed point.  A length is an integer *)
(* number of 1/PosScale arena units, a velocity of 1/VelScale units per    *)
(* second, an angle of 1/AngScale radians, a unit vector component of      *)
(* 1/NrmScale, a health of 1/HpScale points.  friction, spinFriction and   *)
(* damage are held in thousandths.  Every product is arranged to stay      *)
(* inside 32-bit integers.                                                 *)
(***************************************************************************)
EXTENDS Integers, Sequences, FiniteSets, TLC

\* ------------------------------------------------------------------------
\* Fixed-point representation of `number`
\* ------------------------------------------------------------------------
PosScale == 64
VelScale == 1024
AngScale == 1024
NrmScale == 1024
HpScale == 1000
Milli == 1000

Abs(a) == IF a < 0 THEN -a ELSE a
Sgn(a) == IF a > 0 THEN 1 ELSE IF a < 0 THEN -1 ELSE 0
Max(a, b) == IF a >= b THEN a ELSE b

\* RDiv[a, b]: a / b rounded to the nearest integer (b > 0)
RDiv == [a \in Int, b \in Int |-> Sgn(a) * ((2 * Abs(a) + b) \div (2 * b))]

RECURSIVE SqrtSearch(_, _, _)
SqrtSearch(n, lo, hi) ==
    IF lo >= hi THEN lo
    ELSE LET mid == (lo + hi + 1) \div 2
         IN  IF mid * mid <= n THEN SqrtSearch(n, mid, hi)
                               ELSE SqrtSearch(n, lo, mid - 1)

\* floor(Math.sqrt(n)) for 0 <= n < 2^31
Sqrt(n) == SqrtSearch(n, 0, 46340)

\* Math.hypot(a, b)
Hypot(a, b) == Sqrt(a * a + b * b)

\* Math.hypot(a, b) < lim, without squaring large components
HypotBelow(a, b, lim) ==
    /\ Abs(a) < lim
    /\ Abs(b) < lim
    /\ a * a + b * b < lim * lim

\* 2*pi, pi and pi/2 in 1/AngScale radians
TwoPi == 6434
Pi == 3217
HalfPi == 1608

\* cos on [0, pi/2]: 1 - u/2 (1 - u/12 (1 - u/30 (1 - u/56))), u = x^2
CosQuarter(x) ==
    LET u  == RDiv[x * x, AngScale]
        t3 == NrmScale - RDiv[u, 56]
        t2 == NrmScale - RDiv[u * t3, 30 * NrmScale]
        t1 == NrmScale - RDiv[u * t2, 12 * NrmScale]
    IN  NrmScale - RDiv[u * t1, 2 * NrmScale]

\* cos of every angle of [0, 2*pi), by quadrant, in 1/NrmScale
CosTable ==
    [m \in 0..(TwoPi - 1) |->
        IF m <= HalfPi THEN CosQuarter(m)
        ELSE IF m <= Pi THEN -CosQuarter(Pi - m)
        ELSE IF m <= Pi + HalfPi THEN -CosQuarter(m - Pi)
        ELSE CosQuarter(TwoPi - m)]

\* Math.cos(a), result in 1/NrmScale
Cos(a) == CosTable[a % TwoPi]

\* Math.sin(a)
Sin(a) == Cos(a - HalfPi)

\* ------------------------------------------------------------------------
\* 32-bit integer operations on <<high 16 bits, low 16 bits>>
\* ------------------------------------------------------------------------
B16 == 65536

RECURSIVE Xor16(_, _)
Xor16(a, b) ==
    IF a = 0 THEN b
    ELSE IF b = 0 THEN a
    ELSE ((a + b) % 2) + 2 * Xor16(a \div 2, b \div 2)

RECURSIVE Or16(_, _)
Or16(a, b) ==
    IF a = 0 THEN b
    ELSE IF b = 0 THEN a
    ELSE (IF a % 2 = 1 \/ b % 2 = 1 THEN 1 ELSE 0) + 2 * Or16(a \div 2, b \div 2)

Pow2(k) == 2 ^ k

\* the 32-bit integers
Word == (0..(B16 - 1)) \X (0..(B16 - 1))

\* a ^ b
Xor32 == [a \in Word, b \in Word |-> <<Xor16(a[1], b[1]), Xor16(a[2], b[2])>>]

\* c | a for a constant c < 2^16
OrLow == [c \in 0..(B16 - 1), a \in Word |-> <<a[1], Or16(a[2], c)>>]

\* a >>> k, 0 < k < 16
Shr32 ==
    [a \in Word, k \in 1..15 |->
        <<a[1] \div Pow2(k),
          (a[2] \div Pow2(k)) + ((a[1] % Pow2(k)) * Pow2(16 - k))>>]

\* (a + b) wrapped to 32 bits
Add32 ==
    [a \in Word, b \in Word |->
        LET lo == a[2] + b[2]
        IN  <<(a[1] + b[1] + (lo \div B16)) % B16, lo % B16>>]

\* Math.imul(a, b): the low 32 bits of the product, by bytes
Imul ==
    [a \in Word, b \in Word |->
        LET a0 == a[2] % 256  a1 == a[2] \div 256  a2 == a[1] % 256  a3 == a[1] \div 256
            b0 == b[2] % 256  b1 == b[2] \div 256  b2 == b[1] % 256  b3 == b[1] \div 256
            c0 == a0 * b0
            c1 == a0 * b1 + a1 * b0 + (c0 \div 256)
            c2 == a0 * b2 + a1 * b1 + a2 * b0 + (c1 \div 256)
            c3 == a0 * b3 + a1 * b2 + a2 * b1 + a3 * b0 + (c2 \div 256)
        IN  <<(c3 % 256) * 256 + (c2 % 256), (c1 % 256) * 256 + (c0 % 256)>>]

\* ToUint32 of the generator state t (a JavaScript number, not wrapped)
ToUint32(t) == <<t[1] % B16, t[2]>>

\* ------------------------------------------------------------------------
\* mulberry32
\* ------------------------------------------------------------------------
\* 0x6D2B79F5
Increment == <<27947, 31221>>

\* mulberry32(seed): the generator state after construction
mulberry32(seed) == <<(seed \div B16) % B16, seed % B16>>

\* t += 0x6D2B79F5 (a number addition: the sum is not wrapped to 32 bits)
Advance(t) ==
    LET lo == t[2] + Increment[2]
    IN  <<t[1] + Increment[1] + (lo \div B16), lo % B16>>

\* one call of the generator: the new state t and the 32-bit numerator v of
\* the returned value v / 4294967296
Draw(t) ==
    LET t1 == Advance(t)
        u  == ToUint32(t1)
        r1 == Imul[Xor32[u, Shr32[u, 15]], OrLow[1, u]]
        r2 == Xor32[r1, Add32[r1, Imul[Xor32[r1, Shr32[r1, 7]], OrLow[61, r1]]]]
    IN  [t |-> t1, v |-> Xor32[r2, Shr32[r2, 14]]]

\* ------------------------------------------------------------------------
\* Types and constants of the component
\* ------------------------------------------------------------------------
\* null (simRef.current.winner, rafRef.current)
Null == "null"

DEFAULT_COLORS ==
    <<"#22c55e", "#3b82f6", "#f59e0b", "#ef4444", "#a855f7", "#14b8a6",
      "#eab308", "#f97316", "#06b6d4", "#84cc16", "#ec4899", "#8b5cf6">>

\* useState<Settings> initial value
DefaultSettings ==
    [arenaR |-> 250, friction |-> 150, spinFriction |-> 200,
     damage |-> 1000, topR |-> 26, seed |-> 1337]

\* useState movies initial value (uid() yields ids that do not repeat)
InitialMovies ==
    << [id |-> "u1", label |-> "Inception", color |-> DEFAULT_COLORS[1]],
       [id |-> "u2", label |-> "The Matrix", color |-> DEFAULT_COLORS[2]],
       [id |-> "u3", label |-> "Spirited Away", color |-> DEFAULT_COLORS[3]] >>

\* 1 / FIXED_DT
StepsPerSecond == 120
\* WALL_RESTITUTION and COLL_RESTITUTION in hundredths
WALL_RESTITUTION == 85
COLL_RESTITUTION == 80

\* ------------------------------------------------------------------------
\* spawnTops
\* ------------------------------------------------------------------------
\* the 16 leading bits of a draw: rng() = High(v) / 65536 up to 2^-16
High(v) == v[1]

\* rng() calls made by one callback of movies.map
DrawsPerTop == 5

\* the next k calls of the generator in state t, in order: each entry holds
\* the value returned and the state the call leaves
RECURSIVE Draws(_, _, _)
Draws(t, k, acc) ==
    IF k = 0 THEN acc
    ELSE LET d == Draw(t)
         IN  Draws(d.t, k - 1, Append(acc, d))

\* SpawnOne with the third and the fourth draw taken in the other order
SpawnOneSwapped(m, i, n, s, d) ==
    LET rr == (s.arenaR - s.topR - 6) * PosScale
        a  == RDiv[i * TwoPi, Max(1, n)] + RDiv[High(d[1].v), 320]
        r  == RDiv[rr * 85, 100] + RDiv[RDiv[rr * 15, 100] * High(d[2].v), B16]
        speed == 120 * VelScale + RDiv[High(d[4].v) * 5, 4]
        dir == a + Pi + RDiv[(High(d[3].v) - 32768) * 3, 320]
    IN  [id |-> m.id, label |-> m.label, color |-> m.color,
         x |-> RDiv[Cos(a) * r, NrmScale],
         y |-> RDiv[Sin(a) * r, NrmScale],
         vx |-> RDiv[Cos(dir) * speed, NrmScale],
         vy |-> RDiv[Sin(dir) * speed, NrmScale],
         ang |-> a,
         vang |-> RDiv[(High(d[5].v) - 32768) * 7, 32],
         r |-> s.topR * PosScale,
         hp |-> 100 * HpScale,
         alive |-> TRUE]

\* the callback of movies.map for the movie m at index i (from 0) of n; d
\* holds its draws in source order: the angle jitter, the radius, the speed,
\* the heading jitter, the spin
SpawnOne(m, i, n, s, d) ==
    LET rr == (s.arenaR - s.topR - 6) * PosScale
        a  == RDiv[i * TwoPi, Max(1, n)] + RDiv[High(d[1].v), 320]
        r  == RDiv[rr * 85, 100] + RDiv[RDiv[rr * 15, 100] * High(d[2].v), B16]
        speed == 120 * VelScale + RDiv[High(d[3].v) * 5, 4]
        dir == a + Pi + RDiv[(High(d[4].v) - 32768) * 3, 320]
    IN  [id |-> m.id, label |-> m.label, color |-> m.color,
         x |-> RDiv[Cos(a) * r, NrmScale],
         y |-> RDiv[Sin(a) * r, NrmScale],
         vx |-> RDiv[Cos(dir) * speed, NrmScale],
         vy |-> RDiv[Sin(dir) * speed, NrmScale],
         ang |-> a,
         vang |-> RDiv[(High(d[5].v) - 32768) * 7, 32],
         r |-> s.topR * PosScale,
         hp |-> 100 * HpScale,
         alive |-> TRUE]

\* movies.map(...) from the index i on, with the generator in state t and
\* the tops arr of the movies before i
RECURSIVE SpawnFrom(_, _, _, _, _)

\* the callback for the index i with its draws d, then the rest of the map
SpawnWith(ms, i, s, d, arr) ==
    SpawnFrom(ms, i + 1, s, d[DrawsPerTop].t,
              Append(arr, SpawnOne(ms[i + 1], i, Len(ms), s, d)))

SpawnFrom(ms, i, s, t, arr) ==
    IF i >= Len(ms) THEN [tops |-> arr, rng |-> t]
    ELSE SpawnWith(ms, i, s, Draws(t, DrawsPerTop, <<>>), arr)

\* spawnTops(): the new simRef.current.tops and the state of rngRef.current
spawnTops(ms, s) == SpawnFrom(ms, 0, s, mulberry32(s.seed), <<>>)

\* ------------------------------------------------------------------------
\* physicsStep
\* ------------------------------------------------------------------------
\* v *= Math.max(0, 1 - f * dt), rounded towards zero
Damp(v, f) ==
    LET den == StepsPerSecond * Milli
    IN  IF f >= den THEN 0
        ELSE Sgn(v) * (Abs(v) - ((Abs(v) * f + den - 1) \div den))

\* "Integrate, apply damping" for one top
Integrate(t, s) ==
    IF ~t.alive THEN t
    ELSE [t EXCEPT
            !.x = @ + RDiv[t.vx * PosScale, VelScale * StepsPerSecond],
            !.y = @ + RDiv[t.vy * PosScale, VelScale * StepsPerSecond],
            !.ang = @ + RDiv[t.vang, StepsPerSecond],
            !.vx = Damp(@, s.friction),
            !.vy = Damp(@, s.friction),
            !.vang = Damp(@, s.spinFriction)]

\* Bounce with the top pushed back by half of the overlap only
BounceHalfPush(t, s, dist, limit) ==
    LET nx  == RDiv[t.x * NrmScale, dist]
        ny  == RDiv[t.y * NrmScale, dist]
        pen == dist - limit
        vn  == RDiv[t.vx * nx + t.vy * ny, NrmScale]
        vnx == RDiv[vn * nx, NrmScale]
        vny == RDiv[vn * ny, NrmScale]
        impact == Abs(vn)
    IN  [t EXCEPT
            !.x = @ - RDiv[nx * pen, 2 * NrmScale],
            !.y = @ - RDiv[ny * pen, 2 * NrmScale],
            !.vx = (@ - vnx) - RDiv[vnx * WALL_RESTITUTION, 100],
            !.vy = (@ - vny) - RDiv[vny * WALL_RESTITUTION, 100],
            !.hp = @ - RDiv[RDiv[impact * 30, VelScale] * s.damage, Milli]]

\* Bounce without WALL_RESTITUTION: the normal velocity is fully reversed
BounceElastic(t, s, dist, limit) ==
    LET nx  == RDiv[t.x * NrmScale, dist]
        ny  == RDiv[t.y * NrmScale, dist]
        pen == dist - limit
        vn  == RDiv[t.vx * nx + t.vy * ny, NrmScale]
        vnx == RDiv[vn * nx, NrmScale]
        vny == RDiv[vn * ny, NrmScale]
        impact == Abs(vn)
    IN  [t EXCEPT
            !.x = @ - RDiv[nx * pen, NrmScale],
            !.y = @ - RDiv[ny * pen, NrmScale],
            !.vx = (@ - vnx) - vnx,
            !.vy = (@ - vny) - vny,
            !.hp = @ - RDiv[RDiv[impact * 30, VelScale] * s.damage, Milli]]

\* Bounce with the damage added to hp instead of taken from it
BounceHeals(t, s, dist, limit) ==
    LET nx  == RDiv[t.x * NrmScale, dist]
        ny  == RDiv[t.y * NrmScale, dist]
        pen == dist - limit
        vn  == RDiv[t.vx * nx + t.vy * ny, NrmScale]
        vnx == RDiv[vn * nx, NrmScale]
        vny == RDiv[vn * ny, NrmScale]
        impact == Abs(vn)
    IN  [t EXCEPT
            !.x = @ - RDiv[nx * pen, NrmScale],
            !.y = @ - RDiv[ny * pen, NrmScale],
            !.vx = (@ - vnx) - RDiv[vnx * WALL_RESTITUTION, 100],
            !.vy = (@ - vny) - RDiv[vny * WALL_RESTITUTION, 100],
            !.hp = @ + RDiv[RDiv[impact * 30, VelScale] * s.damage, Milli]]

\* the wall bounce of a top at distance dist > limit
Bounce(t, s, dist, limit) ==
    LET nx  == RDiv[t.x * NrmScale, dist]
        ny  == RDiv[t.y * NrmScale, dist]
        pen == dist - limit
        vn  == RDiv[t.vx * nx + t.vy * ny, NrmScale]
        vnx == RDiv[vn * nx, NrmScale]
        vny == RDiv[vn * ny, NrmScale]
        impact == Abs(vn)
    IN  [t EXCEPT
            !.x = @ - RDiv[nx * pen, NrmScale],
            !.y = @ - RDiv[ny * pen, NrmScale],
            !.vx = (@ - vnx) - RDiv[vnx * WALL_RESTITUTION, 100],
            !.vy = (@ - vny) - RDiv[vny * WALL_RESTITUTION, 100],
            !.hp = @ - RDiv[RDiv[impact * 30, VelScale] * s.damage, Milli]]

\* RingOut with "or" between the two tests of a top that has come to rest
RingOutEither(t, s, dist) ==
    \/ dist > (s.arenaR + 40) * PosScale
    \/ t.hp <= 0
    \/ HypotBelow(t.vx, t.vy, 5 * VelScale)
    \/ Abs(t.vang) * 10 < 2 * AngScale

\* RingOut without the test for a top that has come to rest
RingOutNoStall(t, s, dist) ==
    \/ dist > (s.arenaR + 40) * PosScale
    \/ t.hp <= 0

\* the "Ring out" condition, on the distance measured before the push back
RingOut(t, s, dist) ==
    \/ dist > (s.arenaR + 40) * PosScale
    \/ t.hp <= 0
    \/ /\ HypotBelow(t.vx, t.vy, 5 * VelScale)
       /\ Abs(t.vang) * 10 < 2 * AngScale

\* WallPass that marks a top it finds dead alive again
WallPassRevives(t, s) ==
    IF ~t.alive THEN [t EXCEPT !.alive = TRUE]
    ELSE LET dist  == Hypot(t.x, t.y)
             limit == s.arenaR * PosScale - t.r - 4 * PosScale
             b     == IF dist > limit THEN Bounce(t, s, dist, limit) ELSE t
         IN  IF RingOut(b, s, dist) THEN [b EXCEPT !.alive = FALSE] ELSE b

\* "Wall collisions and ring out" for one top
WallPass(t, s) ==
    IF ~t.alive THEN t
    ELSE LET dist  == Hypot(t.x, t.y)
             limit == s.arenaR * PosScale - t.r - 4 * PosScale
             b     == IF dist > limit THEN Bounce(t, s, dist, limit) ELSE t
         IN  IF RingOut(b, s, dist) THEN [b EXCEPT !.alive = FALSE] ELSE b

\* d2 < rsum * rsum for the tops a and b
Overlap(a, b) ==
    LET dx == b.x - a.x
        dy == b.y - a.y
    IN  HypotBelow(dx, dy, a.r + b.r)

\* Collide with the whole overlap pushed onto b: a is not moved
CollideLopsided(tops, i, j, s) ==
    LET a   == tops[i]
        b   == tops[j]
        dx  == b.x - a.x
        dy  == b.y - a.y
        d2  == dx * dx + dy * dy
        d8  == Sqrt(d2 * 64)
        nx  == IF d2 = 0 THEN 0 ELSE RDiv[dx * NrmScale * 8, d8]
        ny  == IF d2 = 0 THEN 0 ELSE RDiv[dy * NrmScale * 8, d8]
        pen == (a.r + b.r) - RDiv[d8, 8]
        hx  == RDiv[nx * pen, NrmScale]
        hy  == RDiv[ny * pen, NrmScale]
        rvx == b.vx - a.vx
        rvy == b.vy - a.vy
        relN == RDiv[rvx * nx + rvy * ny, NrmScale]
        jimp == RDiv[-(100 + COLL_RESTITUTION) * relN, 200]
        ix  == RDiv[jimp * nx, NrmScale]
        iy  == RDiv[jimp * ny, NrmScale]
        kick == RDiv[RDiv[rvx * (-ny) + rvy * nx, NrmScale], 100]
        dmg == RDiv[RDiv[Abs(relN) * 40, VelScale] * s.damage, Milli]
    IN  [tops EXCEPT
            ![i] = [a EXCEPT !.vx = @ - ix, !.vy = @ - iy,
                             !.vang = @ + kick, !.hp = @ - dmg],
            ![j] = [b EXCEPT !.x = @ + hx, !.y = @ + hy,
                             !.vx = @ + ix, !.vy = @ + iy,
                             !.vang = @ - kick, !.hp = @ - dmg]]

\* Collide with the normal (1, 0) for two tops with the same centre
CollideUnitAtZero(tops, i, j, s) ==
    LET a   == tops[i]
        b   == tops[j]
        dx  == b.x - a.x
        dy  == b.y - a.y
        d2  == dx * dx + dy * dy
        d8  == Sqrt(d2 * 64)
        nx  == IF d2 = 0 THEN NrmScale ELSE RDiv[dx * NrmScale * 8, d8]
        ny  == IF d2 = 0 THEN 0 ELSE RDiv[dy * NrmScale * 8, d8]
        pen == (a.r + b.r) - RDiv[d8, 8]
        hx  == RDiv[nx * pen, 2 * NrmScale]
        hy  == RDiv[ny * pen, 2 * NrmScale]
        rvx == b.vx - a.vx
        rvy == b.vy - a.vy
        relN == RDiv[rvx * nx + rvy * ny, NrmScale]
        jimp == RDiv[-(100 + COLL_RESTITUTION) * relN, 200]
        ix  == RDiv[jimp * nx, NrmScale]
        iy  == RDiv[jimp * ny, NrmScale]
        kick == RDiv[RDiv[rvx * (-ny) + rvy * nx, NrmScale], 100]
        dmg == RDiv[RDiv[Abs(relN) * 40, VelScale] * s.damage, Milli]
    IN  [tops EXCEPT
            ![i] = [a EXCEPT !.x = @ - hx, !.y = @ - hy,
                             !.vx = @ - ix, !.vy = @ - iy,
                             !.vang = @ + kick, !.hp = @ - dmg],
            ![j] = [b EXCEPT !.x = @ + hx, !.y = @ + hy,
                             !.vx = @ + ix, !.vy = @ + iy,
                             !.vang = @ - kick, !.hp = @ - dmg]]

\* Collide with the impulse not halved: jimp = -(1 + COLL_RESTITUTION) * relN
CollideFullImpulse(tops, i, j, s) ==
    LET a   == tops[i]
        b   == tops[j]
        dx  == b.x - a.x
        dy  == b.y - a.y
        d2  == dx * dx + dy * dy
        d8  == Sqrt(d2 * 64)
        nx  == IF d2 = 0 THEN 0 ELSE RDiv[dx * NrmScale * 8, d8]
        ny  == IF d2 = 0 THEN 0 ELSE RDiv[dy * NrmScale * 8, d8]
        pen == (a.r + b.r) - RDiv[d8, 8]
        hx  == RDiv[nx * pen, 2 * NrmScale]
        hy  == RDiv[ny * pen, 2 * NrmScale]
        rvx == b.vx - a.vx
        rvy == b.vy - a.vy
        relN == RDiv[rvx * nx + rvy * ny, NrmScale]
        jimp == RDiv[-(100 + COLL_RESTITUTION) * relN, 100]
        ix  == RDiv[jimp * nx, NrmScale]
        iy  == RDiv[jimp * ny, NrmScale]
        kick == RDiv[RDiv[rvx * (-ny) + rvy * nx, NrmScale], 100]
        dmg == RDiv[RDiv[Abs(relN) * 40, VelScale] * s.damage, Milli]
    IN  [tops EXCEPT
            ![i] = [a EXCEPT !.x = @ - hx, !.y = @ - hy,
                             !.vx = @ - ix, !.vy = @ - iy,
                             !.vang = @ + kick, !.hp = @ - dmg],
            ![j] = [b EXCEPT !.x = @ + hx, !.y = @ + hy,
                             !.vx = @ + ix, !.vy = @ + iy,
                             !.vang = @ - kick, !.hp = @ - dmg]]

\* the body of "if (d2 < rsum * rsum)" for tops[i] and tops[j];
\* Math.max(1e-6, d2) only matters for d2 = 0, where the normal is 0
Collide(tops, i, j, s) ==
    LET a   == tops[i]
        b   == tops[j]
        dx  == b.x - a.x
        dy  == b.y - a.y
        d2  == dx * dx + dy * dy
        d8  == Sqrt(d2 * 64)
        nx  == IF d2 = 0 THEN 0 ELSE RDiv[dx * NrmScale * 8, d8]
        ny  == IF d2 = 0 THEN 0 ELSE RDiv[dy * NrmScale * 8, d8]
        pen == (a.r + b.r) - RDiv[d8, 8]
        hx  == RDiv[nx * pen, 2 * NrmScale]
        hy  == RDiv[ny * pen, 2 * NrmScale]
        rvx == b.vx - a.vx
        rvy == b.vy - a.vy
        relN == RDiv[rvx * nx + rvy * ny, NrmScale]
        jimp == RDiv[-(100 + COLL_RESTITUTION) * relN, 200]
        ix  == RDiv[jimp * nx, NrmScale]
        iy  == RDiv[jimp * ny, NrmScale]
        kick == RDiv[RDiv[rvx * (-ny) + rvy * nx, NrmScale], 100]
        dmg == RDiv[RDiv[Abs(relN) * 40, VelScale] * s.damage, Milli]
    IN  [tops EXCEPT
            ![i] = [a EXCEPT !.x = @ - hx, !.y = @ - hy,
                             !.vx = @ - ix, !.vy = @ - iy,
                             !.vang = @ + kick, !.hp = @ - dmg],
            ![j] = [b EXCEPT !.x = @ + hx, !.y = @ + hy,
                             !.vx = @ + ix, !.vy = @ + iy,
                             !.vang = @ - kick, !.hp = @ - dmg]]

\* PairInner without "if (!b.alive) continue"
RECURSIVE PairInnerAll(_, _, _, _)
PairInnerAll(tops, i, j, s) ==
    IF j > Len(tops) THEN tops
    ELSE IF Overlap(tops[i], tops[j])
         THEN PairInnerAll(Collide(tops, i, j, s), i, j + 1, s)
         ELSE PairInnerAll(tops, i, j + 1, s)

\* the inner loop "for (let j = i + 1; ...)" from j on
RECURSIVE PairInner(_, _, _, _)
PairInner(tops, i, j, s) ==
    IF j > Len(tops) THEN tops
    ELSE IF tops[j].alive /\ Overlap(tops[i], tops[j])
         THEN PairInner(Collide(tops, i, j, s), i, j + 1, s)
         ELSE PairInner(tops, i, j + 1, s)

\* PairPass with the inner loop from the first top: "for (let j = 0; ...)"
RECURSIVE PairPassFromFirst(_, _, _)
PairPassFromFirst(tops, i, s) ==
    IF i > Len(tops) THEN tops
    ELSE IF tops[i].alive
         THEN PairPassFromFirst(PairInner(tops, i, 1, s), i + 1, s)
         ELSE PairPassFromFirst(tops, i + 1, s)

\* the outer loop "for (let i = 0; ...)" from i on
RECURSIVE PairPass(_, _, _)
PairPass(tops, i, s) ==
    IF i > Len(tops) THEN tops
    ELSE IF tops[i].alive THEN PairPass(PairInner(tops, i, i + 1, s), i + 1, s)
         ELSE PairPass(tops, i + 1, s)

\* tops.filter(t => t.alive), as indexes
AliveIdx(tops) == {i \in 1..Len(tops) : tops[i].alive}

\* alive[0]
FirstAlive(tops) == CHOOSE i \in AliveIdx(tops) : \A k \in AliveIdx(tops) : i <= k

\* alive[0]?.label || null
WinnerOf(tops) ==
    IF AliveIdx(tops) = {} THEN Null
    ELSE IF tops[FirstAlive(tops)].label = "" THEN Null
    ELSE tops[FirstAlive(tops)].label

\* CheckWinner that keeps only the tops that are alive
CheckWinnerDropsDead(sm, tops) ==
    IF Cardinality(AliveIdx(tops)) <= 1
    THEN [running |-> FALSE, tops |-> SelectSeq(tops, LAMBDA t : t.alive),
          winner |-> WinnerOf(tops)]
    ELSE [sm EXCEPT !.tops = SelectSeq(tops, LAMBDA t : t.alive)]

\* "Check winner"
CheckWinner(sm, tops) ==
    IF Cardinality(AliveIdx(tops)) <= 1
    THEN [running |-> FALSE, tops |-> tops, winner |-> WinnerOf(tops)]
    ELSE [sm EXCEPT !.tops = tops]

\* the loop "Integrate, apply damping"
IntegrateAll(tops, s) == [i \in 1..Len(tops) |-> Integrate(tops[i], s)]

\* the loop "Wall collisions and ring out"
WallAll(tops, s) == [i \in 1..Len(tops) |-> WallPass(tops[i], s)]

\* physicsStep with the pair collisions resolved before the wall pass
physicsStepPairsFirst(s, sm) ==
    CheckWinner(sm, WallAll(PairPass(IntegrateAll(sm.tops, s), 1, s), s))

\* physicsStep(FIXED_DT) of a closure whose settings are s, on simRef.current
physicsStep(s, sm) ==
    CheckWinner(sm, PairPass(WallAll(IntegrateAll(sm.tops, s), s), 1, s))

\* ------------------------------------------------------------------------
\* Bounds and inputs
\* ------------------------------------------------------------------------
\* the roster is kept to MaxMovies entries (CrowdMovies in SpecCrowd)
MaxMovies == 3
CrowdMovies == 37
\* no frame is started once a match has run MaxTicks steps (CrowdTicks)
MaxTicks == 990
CrowdTicks == 3
\* in SpecLive a match is followed to its end, up to LiveTicks steps
LiveTicks == 2200
\* start() is not called while MaxLoops frame callbacks are pending
MaxLoops == 2
CrowdLoops == 1
LiveLoops == 1

\* time is counted in halves of FIXED_DT
StepTime == 2
\* the time between two animation frames: a 60 Hz display, two steps
Deltas == {4}

\* the positions the sliders are moved to
SliderMoves == {<<"friction", 150>>, <<"friction", 390>>}
CrowdMoves ==
    {<<"arenaR", 250>>, <<"arenaR", 160>>, <<"topR", 26>>, <<"topR", 40>>,
     <<"seed", 1337>>, <<"seed", 10000>>}

\* what is typed and picked in the "Add movie" form
NewLabels == {"Inception"}
NewColors == {DEFAULT_COLORS[4]}

\* ------------------------------------------------------------------------
\* spawnTops, tabulated: the positions depend on the number of movies and on
\* arenaR, topR and seed only
\* ------------------------------------------------------------------------
Blank == [id |-> "", label |-> "", color |-> ""]

ValuesOf(f) ==
    {DefaultSettings[f]} \cup
    {mv[2] : mv \in {m \in SliderMoves \cup CrowdMoves : m[1] = f}}

SpawnTable ==
    [n \in 0..(Max(MaxMovies, CrowdMovies)), a \in ValuesOf("arenaR"),
     r \in ValuesOf("topR"), sd \in ValuesOf("seed") |->
        spawnTops([i \in 1..n |-> Blank],
                  [DefaultSettings EXCEPT !.arenaR = a, !.topR = r, !.seed = sd])]

\* the tops e.tops with the ids, labels and colours of the movies ms
Relabel(ms, e) ==
    [tops |-> [i \in 1..Len(ms) |->
                 [e.tops[i] EXCEPT !.id = ms[i].id, !.label = ms[i].label,
                                   !.color = ms[i].color]],
     rng |-> e.rng]

\* spawnTops(ms, s), read from the table
Spawned(ms, s) == Relabel(ms, SpawnTable[Len(ms), s.arenaR, s.topR, s.seed])

\* ------------------------------------------------------------------------
\* State
\* ------------------------------------------------------------------------
VARIABLES
    movies,     \* useState movies
    settings,   \* useState settings
    sim,        \* simRef.current: running, tops, winner
    rng,        \* the state t of the generator in rngRef.current
    raf,        \* the frame callbacks requested and not yet run, in order;
                \* each holds the acc and the settings of its closure
    rafRef,     \* the index in raf of the request rafRef.current names,
                \* 0 when it is null or names a request that is gone
    run,        \* the callbacks of the frame in progress still to run;
                \* the first one is inside its while loop
    nticks,     \* physics steps applied to the tops since they were spawned
    elapsed,    \* how far performance.now() has advanced since the tops were
                \* spawned, in halves of FIXED_DT
    op,         \* the last operation
    \* the wheel spinner (wheel-context.tsx)
    slices,       \* useState slices
    removalMode,  \* useState removalMode
    isSpinning,   \* useState isSpinning
    winner,       \* useState winner
    rotationRef,  \* rotationRef.current, modulo a full turn
    stepCb,       \* the closures "step" whose animation frame is requested,
                  \* none or one: the slices and removalMode of the render
                  \* spin() was called in, targetRotation and the frames drawn
    readers,      \* the files whose FileReader has not called onload yet
    made          \* the number of ids uid() has made for the wheel

\* the state of the wheel spinner, which the battle leaves alone
wheelVars ==
    <<slices, removalMode, isSpinning, winner, rotationRef, stepCb, readers,
      made>>

\* the state of the battle, which the wheel spinner leaves alone
bladeVars == <<movies, settings, sim, rng, raf, rafRef, run, nticks, elapsed>>

vars ==
    <<movies, settings, sim, rng, raf, rafRef, run, nticks, elapsed, op,
      slices, removalMode, isSpinning, winner, rotationRef, stepCb, readers,
      made>>

\* pickColor(i)
pickColor(i) == DEFAULT_COLORS[(i % Len(DEFAULT_COLORS)) + 1]

\* useState slices initial value of the wheel spinner
InitialSlices ==
    << [id |-> "u1", label |-> "Inception", color |-> pickColor(0)],
       [id |-> "u2", label |-> "The Matrix", color |-> pickColor(1)],
       [id |-> "u3", label |-> "Spirited Away", color |-> pickColor(2)] >>

\* uid(): an id that is not in use
RECURSIVE FreshFrom(_, _)
FreshFrom(ms, k) ==
    IF \E i \in 1..Len(ms) : ms[i].id = "u" \o ToString(k)
    THEN FreshFrom(ms, k + 1)
    ELSE "u" \o ToString(k)

uid(ms) == FreshFrom(ms, 1)

\* the state after the first render and its effect (spawnTops(); draw())
Init ==
    /\ movies = InitialMovies
    /\ settings = DefaultSettings
    /\ sim = [running |-> FALSE,
              tops |-> Spawned(InitialMovies, DefaultSettings).tops,
              winner |-> Null]
    /\ rng = Spawned(InitialMovies, DefaultSettings).rng
    /\ raf = <<>>
    /\ rafRef = 0
    /\ run = <<>>
    /\ nticks = 0
    /\ elapsed = 0
    /\ op = "mount"
    /\ slices = InitialSlices
    /\ removalMode = FALSE
    /\ isSpinning = FALSE
    /\ winner = Null
    /\ rotationRef = 0
    /\ stepCb = <<>>
    /\ readers = <<>>
    /\ made = Len(InitialSlices)

\* no frame callback is executing: event handlers can run
Idle == run = <<>>

\* ------------------------------------------------------------------------
\* Controls
\* ------------------------------------------------------------------------
Remove(q, i) == SubSeq(q, 1, i - 1) \o SubSeq(q, i + 1, Len(q))

\* cancelAnimationFrame(rafRef.current) of pause()
Cancelled == IF rafRef = 0 THEN raf ELSE Remove(raf, rafRef)

\* spawnTops() without "rngRef.current = mulberry32(seed)": the draws go on
\* from the state the generator is in
RespawnContinued(ms, s, running) ==
    \E sp \in {SpawnFrom(ms, 0, s, rng, <<>>)} :
        /\ sim' = [running |-> running, tops |-> sp.tops, winner |-> Null]
        /\ rng' = sp.rng
        /\ elapsed' = 0

\* spawnTops() of a render with the movies ms and the settings s; running
\* is what simRef.current.running holds, which spawnTops() leaves alone
Respawn(ms, s, running) ==
    \E sp \in {Spawned(ms, s)} :
        /\ sim' = [running |-> running, tops |-> sp.tops, winner |-> Null]
        /\ rng' = sp.rng
        /\ elapsed' = 0

\* start() without "if (movies.length < 2) return"
StartUnguarded(maxLoops) ==
    /\ Idle
    /\ op' = "start"
    /\ Len(raf) < maxLoops
    /\ Respawn(movies, settings, TRUE)
    /\ raf' = Append(raf, [acc |-> 0, s |-> settings])
    /\ rafRef' = Len(raf) + 1
    /\ nticks' = 0
    /\ UNCHANGED <<movies, settings, run>>
    /\ UNCHANGED wheelVars

\* start(), from the "Start battle" or the "Resume" button
StartB(maxLoops) ==
    /\ Idle
    /\ op' = "start"
    /\ UNCHANGED wheelVars
    /\ IF Len(movies) < 2
       THEN UNCHANGED <<movies, settings, sim, rng, raf, rafRef, run, nticks, elapsed>>
       ELSE /\ Len(raf) < maxLoops
            /\ Respawn(movies, settings, TRUE)
            /\ raf' = Append(raf, [acc |-> 0, s |-> settings])
            /\ rafRef' = Len(raf) + 1
            /\ nticks' = 0
            /\ UNCHANGED <<movies, settings, run>>

\* pause()
Pause ==
    /\ Idle
    /\ op' = "pause"
    /\ sim' = [sim EXCEPT !.running = FALSE]
    /\ raf' = Cancelled
    /\ rafRef' = 0
    /\ UNCHANGED <<movies, settings, rng, run, nticks, elapsed>>
    /\ UNCHANGED wheelVars

\* reset(): pause(); spawnTops(); draw()
Reset ==
    /\ Idle
    /\ op' = "reset"
    /\ Respawn(movies, settings, FALSE)
    /\ raf' = Cancelled
    /\ rafRef' = 0
    /\ nticks' = 0
    /\ UNCHANGED <<movies, settings, run>>
    /\ UNCHANGED wheelVars

\* the effect [draw, spawnTops] after a render with new movies or settings:
\* the cleanup pause() of the previous effect, then spawnTops(); draw()
Effect(ms, s) ==
    /\ Respawn(ms, s, FALSE)
    /\ raf' = Cancelled
    /\ rafRef' = 0
    /\ nticks' = 0
    /\ UNCHANGED run

\* addMovie() with a non-empty trimmed label
AddMovieB(maxMovies, label, color) ==
    /\ Idle
    /\ Len(movies) < maxMovies
    /\ op' = "addMovie"
    /\ movies' = Append(movies, [id |-> uid(movies), label |-> label, color |-> color])
    /\ Effect(movies', settings)
    /\ UNCHANGED settings
    /\ UNCHANGED wheelVars

\* removeMovie(id) of the last movie of the roster
RemoveMovie ==
    /\ Idle
    /\ Len(movies) > 0
    /\ op' = "removeMovie"
    /\ movies' = SubSeq(movies, 1, Len(movies) - 1)
    /\ Effect(movies', settings)
    /\ UNCHANGED settings
    /\ UNCHANGED wheelVars

\* onChange of a slider: setSettings(s => ({ ...s, [f]: v }))
SetSettings(f, v) ==
    /\ Idle
    /\ op' = "setSettings"
    /\ settings' = [settings EXCEPT ![f] = v]
    /\ Effect(movies, settings')
    /\ UNCHANGED movies
    /\ UNCHANGED wheelVars

\* ------------------------------------------------------------------------
\* Main loop: tick() and the callback loop
\* ------------------------------------------------------------------------
\* Runs the callbacks at the head of q up to the first one that has a step to
\* do.  entered: the head is past "if (!simRef.current.running) return".  A
\* callback with acc < step calls draw() and requests its next frame.
RECURSIVE Settle(_, _, _, _, _)
Settle(q, entered, running, rq, ref) ==
    IF q = <<>> THEN [run |-> q, raf |-> rq, rafRef |-> ref]
    ELSE IF ~entered /\ ~running THEN Settle(Tail(q), FALSE, running, rq, ref)
    ELSE IF Head(q).acc >= StepTime THEN [run |-> q, raf |-> rq, rafRef |-> ref]
    ELSE Settle(Tail(q), FALSE, running, Append(rq, Head(q)), Len(rq) + 1)

\* one iteration of "while (acc >= step) { physicsStep(step); acc -= step; }"
\* of the callback Head(q), and the callbacks it lets run
Iteration(q, rq, ref) ==
    LET sm == physicsStep(Head(q).s, sim)
        st == Settle(<<[Head(q) EXCEPT !.acc = @ - StepTime]>> \o Tail(q),
                     TRUE, sm.running, rq, ref)
    IN  /\ sim' = sm
        /\ run' = st.run
        /\ raf' = st.raf
        /\ rafRef' = st.rafRef
        /\ nticks' = nticks + 1
        /\ op' = "step"

\* an animation frame d after the previous one: the pending callbacks run in
\* the order of their requests, each with acc += (now - last) / 1000, up to
\* the end of the first iteration of a while loop
FrameB(maxTicks, d) ==
    /\ Idle
    /\ raf # <<>>
    /\ nticks < maxTicks
    /\ LET q  == [i \in 1..Len(raf) |-> [raf[i] EXCEPT !.acc = @ + d]]
           st == Settle(q, FALSE, sim.running, <<>>, 0)
       IN  IF st.run = <<>>
           THEN /\ raf' = st.raf
                /\ rafRef' = st.rafRef
                /\ run' = <<>>
                /\ op' = "frame"
                /\ UNCHANGED <<sim, nticks>>
           ELSE Iteration(st.run, st.raf, st.rafRef)
    /\ elapsed' = elapsed + d
    /\ UNCHANGED <<movies, settings, rng>>
    /\ UNCHANGED wheelVars

\* the next iteration of the while loop of the callback that is running
Tick ==
    /\ ~Idle
    /\ Iteration(run, raf, rafRef)
    /\ UNCHANGED <<movies, settings, rng, elapsed>>
    /\ UNCHANGED wheelVars

\* ------------------------------------------------------------------------
\* Specifications
\* ------------------------------------------------------------------------
Start == StartB(MaxLoops)
AddMovie == \E l \in NewLabels, c \in NewColors : AddMovieB(MaxMovies, l, c)
MoveSlider == \E mv \in SliderMoves : SetSettings(mv[1], mv[2])
Frame == \E d \in Deltas : FrameB(MaxTicks, d)

Next ==
    \/ Start
    \/ Pause
    \/ Reset
    \/ AddMovie
    \/ RemoveMovie
    \/ MoveSlider
    \/ Frame
    \/ Tick

Spec == Init /\ [][Next]_vars

\* a crowded arena: movies are only added, the arena and top sliders move
CrowdStart == StartB(CrowdLoops)
CrowdAdd == \E l \in NewLabels, c \in NewColors : AddMovieB(CrowdMovies, l, c)
CrowdSlider == \E mv \in CrowdMoves : SetSettings(mv[1], mv[2])
CrowdFrame == \E d \in Deltas : FrameB(CrowdTicks, d)

NextCrowd ==
    \/ CrowdStart
    \/ Pause
    \/ Reset
    \/ CrowdAdd
    \/ CrowdSlider
    \/ CrowdFrame
    \/ Tick

SpecCrowd == Init /\ [][NextCrowd]_vars

\* matches followed to their end
LiveStart == StartB(LiveLoops)
LiveFrame == \E d \in Deltas : FrameB(LiveTicks, d)

NextLive ==
    \/ LiveStart
    \/ Pause
    \/ RemoveMovie
    \/ MoveSlider
    \/ LiveFrame
    \/ Tick

\* LiveFrame as the clock sees it: among the steps of NextLive only a frame
\* advances elapsed, and a frame can run exactly when FrameB's guard holds
FrameDue ==
    /\ Idle
    /\ raf # <<>>
    /\ nticks < LiveTicks
    /\ \E d \in Deltas : elapsed' = elapsed + d

\* Tick as the step counter sees it: while a callback is in its while loop
\* the only step of NextLive is the next iteration
TickDue ==
    /\ ~Idle
    /\ nticks' = nticks + 1

\* the browser keeps calling the requested frame callbacks, and a callback
\* that is in its while loop goes on to the next iteration
SpecLive ==
    Init /\ [][NextLive]_vars /\ WF_elapsed(FrameDue) /\ WF_nticks(TickDue)

\* ------------------------------------------------------------------------
\* The wheel spinner (wheel-context.tsx)
\* ------------------------------------------------------------------------
\* a full turn (2 * Math.PI) in the angle unit of the wheel: a sixtieth of a
\* turn, so that the slice angle of up to 6 slices is a whole number
TAU == 60
\* "eps": the nudge off a slice boundary, the smallest angle there is
WheelEps == 1

\* the wheel holds up to MaxSlices slices when a slice is added
MaxSlices == 3
\* uid() is called up to MaxUids times for the wheel
MaxUids == 6
\* file reads in progress at one time
MaxReads == 1
\* animation frames of a spin before the one that reaches t = 1
SpinFrames == 1

\* Math.random() * 2 * Math.PI of spin()
SpinRandoms == {20, 40}
\* the rows of the slice list whose "Remove" button is clicked
RemovedRows == {1}
\* what is typed and picked in the form of addSlice
SliceLabels == {"Alien"}
SliceColors == {DEFAULT_COLORS[4]}
\* the parsed contents of the files that are imported: one holds an array
\* of slices, one does not
ImportFiles ==
    { [isArray |-> TRUE,
       data |-> <<[label |-> "Brazil", color |-> "#ef4444"],
                  [label |-> "Casablanca", color |-> ""]>>],
      [isArray |-> FALSE, data |-> <<>>] }

\* a % b of JavaScript: the sign is that of a
JsMod(a, b) == IF a >= 0 THEN a % b ELSE -((-a) % b)

\* "angle" of a render with n slices
SliceAngle(n) == IF n = 0 THEN 0 ELSE TAU \div n

\* landedIdx of the closure cb, from its targetRotation, angle and slices
LandedIdx(cb) ==
    LET finalAngle == JsMod(JsMod(cb.targetRotation, TAU) + TAU, TAU)
        pointer    == -(TAU \div 4)
        relative   == JsMod((pointer - finalAngle) + TAU, TAU)
    IN  JsMod(JsMod(relative - WheelEps + TAU, TAU)
                  \div SliceAngle(Len(cb.slices)),
              Len(cb.slices))

\* uid() of the wheel after k calls: an id that was not made before
WheelUid(k) == "u" \o ToString(k + 1)

\* data.map((d, i) => ({ id: uid(), label, color: d.color || pickColor(i) }))
\* from the index i (from 0) on, with the slices out made so far
RECURSIVE Normalized(_, _, _)
Normalized(data, i, out) ==
    IF i >= Len(data) THEN out
    ELSE Normalized(data, i + 1,
             Append(out, [id |-> WheelUid(made + i),
                          label |-> data[i + 1].label,
                          color |-> IF data[i + 1].color = "" THEN pickColor(i)
                                    ELSE data[i + 1].color]))

\* prev.filter((_, i) => i !== idx), with idx from 0
WithoutIndex(prev, idx) ==
    IF idx + 1 \in 1..Len(prev) THEN Remove(prev, idx + 1) ELSE prev

\* addSlice(): not disabled while the wheel spins
AddSlice ==
    \E label \in SliceLabels, color \in SliceColors :
        /\ Len(slices) < MaxSlices
        /\ made < MaxUids
        /\ op' = "addSlice"
        /\ slices' = Append(slices, [id |-> WheelUid(made), label |-> label,
                                     color |-> color])
        /\ made' = made + 1
        /\ UNCHANGED <<removalMode, isSpinning, winner, rotationRef, stepCb,
                       readers>>
        /\ UNCHANGED bladeVars

\* removeSlice(id): the "Remove" buttons are disabled while the wheel spins
RemoveSlice ==
    \E k \in RemovedRows \cap (1..Len(slices)) :
        /\ ~isSpinning
        /\ op' = "removeSlice"
        /\ slices' = SelectSeq(slices, LAMBDA sl : sl.id # slices[k].id)
        /\ UNCHANGED <<removalMode, isSpinning, winner, rotationRef, stepCb,
                       readers, made>>
        /\ UNCHANGED bladeVars

\* clearAll(): the "Clear" button is disabled while the wheel spins
ClearAll ==
    /\ ~isSpinning
    /\ op' = "clearAll"
    /\ slices' = <<>>
    /\ winner' = Null
    /\ UNCHANGED <<removalMode, isSpinning, rotationRef, stepCb, readers, made>>
    /\ UNCHANGED bladeVars

\* setRemovalMode(b), from the checkbox
SetRemovalMode ==
    /\ op' = "setRemovalMode"
    /\ removalMode' = ~removalMode
    /\ UNCHANGED <<slices, isSpinning, winner, rotationRef, stepCb, readers,
                   made>>
    /\ UNCHANGED bladeVars

\* importJSON(file): reader.readAsText(file); not disabled while the wheel
\* spins
ImportJSON ==
    \E f \in ImportFiles :
        /\ Len(readers) < MaxReads
        /\ made + Len(f.data) <= MaxUids
        /\ op' = "importJSON"
        /\ readers' = Append(readers, f)
        /\ UNCHANGED <<slices, removalMode, isSpinning, winner, rotationRef,
                       stepCb, made>>
        /\ UNCHANGED bladeVars

\* reader.onload of the oldest read in progress
ReaderOnload ==
    /\ readers # <<>>
    /\ op' = "onload"
    /\ readers' = Tail(readers)
    /\ slices' = IF Head(readers).isArray
                 THEN Normalized(Head(readers).data, 0, <<>>)
                 ELSE slices
    /\ made' = IF Head(readers).isArray THEN made + Len(Head(readers).data)
               ELSE made
    /\ UNCHANGED <<removalMode, isSpinning, winner, rotationRef, stepCb>>
    /\ UNCHANGED bladeVars

\* spin(), from the "Spin" button
SpinB ==
    \E random \in SpinRandoms :
        /\ ~(isSpinning \/ Len(slices) = 0)
        /\ op' = "spin"
        /\ isSpinning' = TRUE
        /\ winner' = Null
        /\ stepCb' = <<[slices |-> slices, removalMode |-> removalMode,
                        targetRotation |-> rotationRef + 4 * TAU + random,
                        frames |-> 0]>>
        /\ UNCHANGED <<slices, removalMode, rotationRef, readers, made>>
        /\ UNCHANGED bladeVars

\* step(now) with t < 1: draw(value); requestAnimationFrame(step)
StepFrame ==
    /\ stepCb # <<>>
    /\ stepCb[1].frames < SpinFrames
    /\ op' = "spinFrame"
    /\ stepCb' = [stepCb EXCEPT ![1].frames = @ + 1]
    /\ UNCHANGED <<slices, removalMode, isSpinning, winner, rotationRef,
                   readers, made>>
    /\ UNCHANGED bladeVars

\* step(now) with t = 1: the wheel has landed
StepLanded ==
    /\ stepCb # <<>>
    /\ stepCb[1].frames >= SpinFrames
    /\ op' = "landed"
    /\ rotationRef' = stepCb[1].targetRotation % TAU
    /\ winner' = stepCb[1].slices[LandedIdx(stepCb[1]) + 1].label
    /\ slices' = IF stepCb[1].removalMode
                 THEN WithoutIndex(slices, LandedIdx(stepCb[1]))
                 ELSE slices
    /\ isSpinning' = FALSE
    /\ stepCb' = <<>>
    /\ UNCHANGED <<removalMode, readers, made>>
    /\ UNCHANGED bladeVars

NextWheel ==
    \/ AddSlice
    \/ RemoveSlice
    \/ ClearAll
    \/ SetRemovalMode
    \/ ImportJSON
    \/ ReaderOnload
    \/ SpinB
    \/ StepFrame
    \/ StepLanded

SpecWheel == Init /\ [][NextWheel]_vars

\* ------------------------------------------------------------------------
\* Properties
\* ------------------------------------------------------------------------
\* the tops that are alive
Alive == AliveIdx(sim.tops)

\* the match has terminated: a step has left at most one top alive and has
\* set running to false
Terminated == nticks > 0 /\ ~sim.running /\ Cardinality(Alive) <= 1

\* the tops are those of the match of the state before: nothing spawned
SameMatch == nticks' > 0

\* the distance of the top t from the centre of the arena
Dist(t) == Hypot(t.x, t.y)

\* the frame callbacks that are requested or running
Loops == Len(raf) + Len(run)

\* C1: once a match has terminated no step is applied to it: as long as no
\* new tops are spawned, every top stays as the terminating step left it.
C1_NoStepAfterTermination ==
    [][(Terminated /\ SameMatch) => sim'.tops = sim.tops]_vars

\* C2: the winner recorded at termination does not change until new tops are
\* spawned.
C2_WinnerFrozen ==
    [][(Terminated /\ SameMatch) => sim'.winner = sim.winner]_vars

\* the tops of the match that the value w names, by id or by label
NamedBy(w) ==
    {i \in 1..Len(sim.tops) : sim.tops[i].id = w \/ sim.tops[i].label = w}

\* C3: at termination the recorded winner is none when no top is alive, and
\* otherwise names exactly one top of the match, the survivor, whatever the
\* labels of the roster are.
C3_WinnerIsTheSurvivor ==
    Terminated =>
        IF Alive = {} THEN sim.winner = Null
        ELSE NamedBy(sim.winner) = Alive

\* C4: at the end of every step no top that is alive has health <= 0.
C4_NoAliveWithoutHealth ==
    \A i \in Alive : sim.tops[i].hp > 0

\* C5: at the end of every step no top that is alive lies further than
\* arenaR + 40 from the centre of the arena.
C5_NoEscape ==
    \A i \in Alive : Dist(sim.tops[i]) <= (settings.arenaR + 40) * PosScale

\* C6: the tops, the running flag and the winner after a step are determined
\* by those before it and by the settings the match was started with, so that
\* two matches of the same roster and settings agree after every step.
C6_Determinism ==
    [][op' = "step" => sim' = physicsStep(settings, sim)]_vars

\* C7: while a match is running at most one frame loop drives it.
C7_SingleDriver ==
    sim.running => Loops <= 1

\* a match that was paused before it terminated
PausedUnfinished ==
    op = "pause" /\ nticks > 0 /\ ~sim.running /\ Cardinality(Alive) >= 2

\* C8: resuming a paused, unfinished match continues from the tops it had
\* when it was paused: they are not spawned again.
C8_ResumeContinues ==
    [][(PausedUnfinished /\ op' = "start") => sim'.tops = sim.tops]_vars

\* C9: start() with fewer than 2 movies leaves the match not running,
\* requests no frame and leaves the tops and the winner as they were.
C9_StartNeedsTwoMovies ==
    [][(op' = "start" /\ Len(movies) < 2) =>
          /\ ~sim'.running
          /\ sim' = sim
          /\ raf' = raf
          /\ rafRef' = rafRef]_vars

\* start() was called with fewer than 2 movies
C9_Witness == op = "start" /\ Len(movies) < 2 /\ ~sim.running

\* C10: no step of a match and no other operation on it increases the health
\* of a top.
C10_HealthNeverIncreases ==
    [][SameMatch =>
          \A i \in 1..Len(sim.tops) : sim'.tops[i].hp <= sim.tops[i].hp]_vars

\* a step has taken health from a top
C10_Witness ==
    op = "step" /\ \E i \in 1..Len(sim.tops) : sim.tops[i].hp < 100 * HpScale

\* C11: within one match the alive flag of a top only goes from true to
\* false: no top that is dead is alive after any operation that spawns no
\* new tops, so the number of alive tops does not grow.
C11_AliveOnlyFalls ==
    [][SameMatch =>
          /\ \A i \in 1..Len(sim.tops) : sim'.tops[i].alive => sim.tops[i].alive
          /\ Cardinality(AliveIdx(sim'.tops)) <= Cardinality(Alive)]_vars

\* a step has run on a match in which a top is dead and others are alive
C11_Witness ==
    /\ op = "step"
    /\ nticks > 1
    /\ Alive # {}
    /\ \E i \in 1..Len(sim.tops) : ~sim.tops[i].alive

\* C12: with frames that keep coming, a match that is running eventually is
\* not: the step that leaves at most one top alive sets running to false
\* (unless the user stops the match before), so no match has two or more
\* tops alive for ever.
C12_MatchTerminates == sim.running ~> ~sim.running

\* a match of 3 tops has been stepped to its end
C12_Witness ==
    /\ op = "step"
    /\ ~sim.running
    /\ Len(sim.tops) = 3
    /\ Cardinality(Alive) <= 1

\* C13: while a match is running, every frame leaves the accumulator of its
\* loop in [0, step) and the steps applied to the match are one for each
\* complete fixed timestep of the time elapsed since it was started.
C13_FixedTimestep ==
    (Idle /\ sim.running) =>
        /\ \A i \in 1..Len(raf) : raf[i].acc >= 0 /\ raf[i].acc < StepTime
        /\ nticks = elapsed \div StepTime

\* the callbacks of a frame d after the last one that get to a physics step,
\* the first of them at the head
Stepping(d) ==
    Settle([i \in 1..Len(raf) |-> [raf[i] EXCEPT !.acc = @ + d]],
           FALSE, sim.running, <<>>, 0).run

\* C14: no step is executed with settings other than those the tops it
\* works on were spawned with, which are the settings of the last render:
\* the callback that runs the step holds them in its closure.
C14_SettingsFixedForMatch ==
    [][op' = "step" =>
          IF run # <<>> THEN Head(run).s = settings
          ELSE \E d \in Deltas :
                  /\ Stepping(d) # <<>>
                  /\ Head(Stepping(d)).s = settings]_vars

\* the tops as the pair loop of the next step finds them
BeforePairs == WallAll(IntegrateAll(sim.tops, settings), settings)

\* the pairs i < j of alive tops of w that overlap
Colliding(w) ==
    {p \in (1..Len(w)) \X (1..Len(w)) :
        /\ p[1] < p[2]
        /\ w[p[1]].alive
        /\ w[p[2]].alive
        /\ Overlap(w[p[1]], w[p[2]])}

\* the velocity of b relative to a along the line from the centre of a0 to
\* the centre of b0, in 1/VelScale
AlongNormal(a, b, a0, b0) ==
    LET dx == b0.x - a0.x
        dy == b0.y - a0.y
        d8 == Sqrt((dx * dx + dy * dy) * 64)
    IN  IF d8 = 0 THEN 0
        ELSE RDiv[(b.vx - a.vx) * RDiv[dx * NrmScale * 8, d8]
                  + (b.vy - a.vy) * RDiv[dy * NrmScale * 8, d8], NrmScale]

\* the relative normal velocity of the pair p of w, 100 times after the pair
\* is resolved plus COLL_RESTITUTION times before
RestitutionError(w, p) ==
    LET r == Collide(w, p[1], p[2], settings)
    IN  100 * AlongNormal(r[p[1]], r[p[2]], w[p[1]], w[p[2]])
        + COLL_RESTITUTION * AlongNormal(w[p[1]], w[p[2]], w[p[1]], w[p[2]])

\* the centres of a and b are a length unit or more apart: the normal of
\* the fixed-point numbers is a unit vector to within a half per cent
Apart(a, b) == ~HypotBelow(b.x - a.x, b.y - a.y, PosScale)

C16_GeneratorIs32Bit ==
    /\ rng \in Word
    /\ Draw(rng).v \in Word

\* the state of a generator made from seed after k draws
StateAfter(seed, k) ==
    LET lo == (seed % B16) + k * Increment[2]
    IN  <<((seed \div B16) % B16) + k * Increment[1] + (lo \div B16), lo % B16>>

\* the leading 16 bits of draw number k, from 0, of a generator made from
\* the seed sd, tabulated for the seeds and the draws of the spawns
NthTable ==
    [sd \in ValuesOf("seed"),
     k \in 0..(DrawsPerTop * Max(MaxMovies, CrowdMovies) - 1) |->
        High(Draw(StateAfter(sd, k)).v)]

\* the leading 16 bits of draw number k, from 0, of a generator made from
\* the seed of the settings
Nth(k) == NthTable[settings.seed, k]

\* the top at index i (from 0) is as spawned from the draws 5i .. 5i+4: the
\* angle jitter, the radius fraction, the speed, the heading jitter and the
\* angular velocity, in this order
FromDraws(t, i, n) ==
    LET rr  == (settings.arenaR - settings.topR - 6) * PosScale
        a   == RDiv[i * TwoPi, Max(1, n)] + RDiv[Nth(5 * i), 320]
        r   == RDiv[rr * 85, 100] + RDiv[RDiv[rr * 15, 100] * Nth(5 * i + 1), B16]
        spd == 120 * VelScale + RDiv[Nth(5 * i + 2) * 5, 4]
        dir == a + Pi + RDiv[(Nth(5 * i + 3) - 32768) * 3, 320]
    IN  /\ t.ang = a
        /\ t.x = RDiv[Cos(a) * r, NrmScale]
        /\ t.y = RDiv[Sin(a) * r, NrmScale]
        /\ t.vx = RDiv[Cos(dir) * spd, NrmScale]
        /\ t.vy = RDiv[Sin(dir) * spd, NrmScale]
        /\ t.vang = RDiv[(Nth(5 * i + 4) - 32768) * 7, 32]

\* C17: a spawn of n tops makes one generator from the seed and takes
\* exactly 5n draws from it, the top at index i using the draws 5i .. 5i+4
\* in the fixed order; no step and no other operation draws from it.
C17_FixedDrawOrder ==
    /\ rng = StateAfter(settings.seed, 5 * Len(sim.tops))
    /\ nticks = 0 =>
          \A i \in 1..Len(sim.tops) :
              FromDraws(sim.tops[i], i - 1, Len(sim.tops))

\* start() has spawned a roster of 4 or more with a seed that is not the
\* default one
C17_Witness ==
    /\ op = "start"
    /\ sim.running
    /\ Len(sim.tops) >= 4
    /\ settings.seed # DefaultSettings.seed

\* the tops w with every dead top put where it overlaps the first alive one:
\* a radius away from its centre
Ghosted(w) ==
    IF AliveIdx(w) = {} THEN w
    ELSE [i \in 1..Len(w) |->
            IF w[i].alive THEN w[i]
            ELSE [w[i] EXCEPT !.x = w[FirstAlive(w)].x + w[FirstAlive(w)].r,
                              !.y = w[FirstAlive(w)].y]]

\* the pair loop on the tops w leaves the dead ones as they are and does to
\* the alive ones what it does on the tops g, which differ in the dead ones
SamePairs(w, g, pw, pg) ==
    \A i \in 1..Len(w) :
        IF w[i].alive THEN pg[i] = pw[i]
        ELSE pw[i] = w[i] /\ pg[i] = g[i]

\* the step from the tops before leaves the dead ones as they are
DeadKept(before, after) ==
    \A i \in 1..Len(before) : ~before[i].alive => after[i] = before[i]

\* the pair loop on the tops w, with the dead ones where they lie and where
\* they would overlap an alive one
InertIn(w) ==
    (\E i \in 1..Len(w) : ~w[i].alive) =>
        SamePairs(w, Ghosted(w), PairPass(w, 1, settings),
                  PairPass(Ghosted(w), 1, settings))

\* C18: a step leaves every top that is dead when it begins as it is, and
\* a top that is dead after the wall loop takes part in no collision of the
\* pair loop: the pair loop leaves it as it is and does to the alive tops
\* what it does when the dead ones lie where they would overlap them.
C18_DeadTopsAreInert ==
    /\ (\E i \in 1..Len(sim.tops) : ~sim.tops[i].alive) =>
           DeadKept(sim.tops, physicsStep(settings, sim).tops)
    /\ InertIn(BeforePairs)

\* the wall loop of the next step marks a top dead and leaves others alive
C18_Witness ==
    /\ nticks > 0
    /\ \E i \in 1..Len(sim.tops) : sim.tops[i].alive /\ ~BeforePairs[i].alive
    /\ Cardinality(AliveIdx(BeforePairs)) >= 2

\* C19: as long as no new tops are spawned the list of tops keeps its length
\* and its order, dead tops included, and the id, the label, the colour and
\* the radius of every top stay as they are.
C19_RosterStable ==
    [][SameMatch =>
          /\ Len(sim'.tops) = Len(sim.tops)
          /\ \A i \in 1..Len(sim.tops) :
                /\ sim'.tops[i].id = sim.tops[i].id
                /\ sim'.tops[i].label = sim.tops[i].label
                /\ sim'.tops[i].color = sim.tops[i].color
                /\ sim'.tops[i].r = sim.tops[i].r]_vars

\* a match of 3 tops has been stepped past the death of one of them
C19_Witness ==
    /\ op = "step"
    /\ Len(sim.tops) = 3
    /\ Cardinality(Alive) = 2

\* the top was at rest when the step tested it: slower than 5 and spinning
\* slower than 0.2
AtRest(t) ==
    /\ Abs(t.vx) < 5 * VelScale
    /\ Abs(t.vy) < 5 * VelScale
    /\ t.vx * t.vx + t.vy * t.vy < 25 * VelScale * VelScale
    /\ 10 * Abs(t.vang) < 2 * AngScale

\* the distance from the centre at which the step finds the top t, after
\* "t.x += t.vx * dt; t.y += t.vy * dt"
FoundAt(t) ==
    Hypot(t.x + RDiv[t.vx * PosScale, VelScale * StepsPerSecond],
          t.y + RDiv[t.vy * PosScale, VelScale * StepsPerSecond])

\* C20: a step marks an alive top dead only if in that step the top is
\* further than arenaR + 40 from the centre, or its health is <= 0, or it is
\* both slower than 5 and spinning slower than 0.2: a top within arenaR + 40
\* with health left that is slow but spinning, or still but moving, is kept.
C20_EliminatedForCause ==
    [][(SameMatch /\ op' = "step") =>
          \A i \in 1..Len(sim.tops) :
              (sim.tops[i].alive /\ ~sim'.tops[i].alive) =>
                  \/ FoundAt(sim.tops[i]) > (settings.arenaR + 40) * PosScale
                  \/ sim'.tops[i].hp <= 0
                  \/ AtRest(sim'.tops[i])]_vars

\* a step has marked dead a top that had come to rest with health left
C20_Witness ==
    /\ op = "step"
    /\ \E i \in 1..Len(sim.tops) :
          /\ ~sim.tops[i].alive
          /\ sim.tops[i].hp > 0
          /\ AtRest(sim.tops[i])


\* C21: at every frame boundary a running match has at least two tops alive
\* and no winner (a winner is only recorded together with running = false),
\* and running only becomes true in start(), on freshly spawned tops of a
\* roster of two movies or more, all of them alive.
C21_RunningMeansContest ==
    [][/\ (Idle /\ sim.running) =>
              (Cardinality(Alive) >= 2 /\ sim.winner = Null)
       /\ (~sim.running /\ sim'.running) =>
              /\ op' = "start"
              /\ nticks' = 0
              /\ sim'.winner = Null
              /\ Len(sim'.tops) = Len(movies)
              /\ Len(movies) >= 2
              /\ \A i \in 1..Len(sim'.tops) :
                     sim'.tops[i].alive /\ sim'.tops[i].hp = 100 * HpScale]_vars

\* a match is running at a frame boundary after steps that eliminated a top
C21_Witness ==
    /\ Idle
    /\ sim.running
    /\ nticks > 0
    /\ Cardinality(Alive) < Len(sim.tops)

\* the settings a frame callback that can run may have captured
ClosureSettings ==
    {settings} \cup {raf[k].s : k \in 1..Len(raf)}
               \cup {run[k].s : k \in 1..Len(run)}

\* g is tops after the integration loop alone: every alive top has moved by
\* its own velocity times FIXED_DT and nothing else, its velocity has only
\* been damped, and its health and the tops that are not alive are untouched
OnlyIntegrated(tops, g) ==
    /\ Len(g) = Len(tops)
    /\ \A i \in 1..Len(tops) :
           IF tops[i].alive
           THEN /\ g[i].x - tops[i].x
                       = RDiv[tops[i].vx * PosScale, VelScale * StepsPerSecond]
                /\ g[i].y - tops[i].y
                       = RDiv[tops[i].vy * PosScale, VelScale * StepsPerSecond]
                /\ Abs(g[i].vx) <= Abs(tops[i].vx)
                /\ Abs(g[i].vy) <= Abs(tops[i].vy)
                /\ Sgn(g[i].vx) \in {0, Sgn(tops[i].vx)}
                /\ Sgn(g[i].vy) \in {0, Sgn(tops[i].vy)}
                /\ g[i].hp = tops[i].hp
                /\ g[i].alive
           ELSE g[i] = tops[i]

\* C22: the tops a step leaves are the pair pass applied to the wall pass of
\* all tops applied to the integration of all tops: every alive top is
\* integrated before any collision is resolved, the wall pass is complete
\* before the first pair is examined, and the integration applies no
\* position or velocity correction.
C22_TickOrdering ==
    [][op' = "step" =>
          \E s \in ClosureSettings :
              /\ OnlyIntegrated(sim.tops, IntegrateAll(sim.tops, s))
              /\ sim'.tops
                     = PairPass(WallAll(IntegrateAll(sim.tops, s), s), 1, s)]_vars

\* a step has run and in the step that follows the order of the wall pass
\* and the pair pass shows: the other order leaves other tops
C22_Witness ==
    /\ op = "step"
    /\ sim.running
    /\ PairPass(BeforePairs, 1, settings)
           # WallAll(PairPass(IntegrateAll(sim.tops, settings), 1, settings),
                     settings)

\* the tops after the integration loop of the step that follows
Integrated == IntegrateAll(sim.tops, settings)

\* "limit" of the wall pass for the top t: arenaR - t.r - 4
WallLimit(t) == settings.arenaR * PosScale - t.r - 4 * PosScale

\* the tops of g the wall pass resolves: alive and beyond the limit
BeyondWall(g) ==
    {i \in 1..Len(g) : g[i].alive /\ Dist(g[i]) > WallLimit(g[i])}

\* the rounding of a corrected position: a sixteenth of a length unit
PosSlack == PosScale \div 16

\* w is what the wall pass makes of the alive top g: moved radially inward
\* by the overlap, to the limit, if g is beyond the limit, and else neither
\* moved nor damaged
WallCorrected(g, w) ==
    IF Dist(g) > WallLimit(g)
    THEN /\ Abs(Dist(w) - WallLimit(g)) <= PosSlack
         /\ Abs(Hypot(g.x - w.x, g.y - w.y) - (Dist(g) - WallLimit(g)))
                <= PosSlack
    ELSE /\ w.x = g.x
         /\ w.y = g.y
         /\ w.vx = g.vx
         /\ w.vy = g.vy
         /\ w.hp = g.hp

\* C23: in the step that follows in a running match, the wall pass moves
\* every alive top that the integration has left beyond arenaR - r - 4
\* radially inward by the overlap, to the limit, up to the rounding of the
\* fixed-point numbers, so that after the wall pass every alive top is
\* within the limit; a top within the limit is not moved and loses no
\* health.
C23_WallCorrection ==
    sim.running =>
        \A i \in Alive :
            WallCorrected(Integrate(sim.tops[i], settings),
                          WallPass(Integrate(sim.tops[i], settings), settings))

\* in a running match the wall pass resolves a top that is more than a
\* length unit beyond the limit and stays alive, and leaves another alone
C23_Witness ==
    /\ sim.running
    /\ op = "step"
    /\ \E i \in BeyondWall(Integrated) :
           /\ BeforePairs[i].alive
           /\ Dist(Integrated[i]) > WallLimit(Integrated[i]) + PosScale
    /\ \E k \in 1..Len(Integrated) :
           Integrated[k].alive /\ k \notin BeyondWall(Integrated)

\* the velocity of t along the outward normal of the arena at the position
\* of g (nx = g.x / dist, ny = g.y / dist), in 1/VelScale
NormalSpeed(t, g) ==
    RDiv[t.vx * RDiv[g.x * NrmScale, Dist(g)]
         + t.vy * RDiv[g.y * NrmScale, Dist(g)], NrmScale]

\* the velocity of t along the tangent of the arena at the position of g
TangentSpeed(t, g) ==
    RDiv[t.vy * RDiv[g.x * NrmScale, Dist(g)]
         - t.vx * RDiv[g.y * NrmScale, Dist(g)], NrmScale]

\* w is the alive top g with its velocity reflected at the wall: the
\* tangential component kept (to 4 / VelScale), the normal component times
\* -WALL_RESTITUTION / 100 (to a hundredth of it and 4 / VelScale), and the
\* health less |vn| * 0.03 * damage (to a thousandth)
Reflected(g, w) ==
    /\ Abs(TangentSpeed(w, g) - TangentSpeed(g, g)) <= 4
    /\ Abs(100 * NormalSpeed(w, g) + WALL_RESTITUTION * NormalSpeed(g, g))
           <= Abs(NormalSpeed(g, g)) + 400
    /\ Abs((g.hp - w.hp) * Milli
           - RDiv[Abs(NormalSpeed(g, g)) * 30, VelScale] * settings.damage)
           <= Milli
    /\ w.hp <= g.hp

\* C24: in the step that follows in a running match, when the wall pass
\* resolves a top (alive and beyond the limit after the integration), its
\* tangential velocity is unchanged, its normal velocity vn becomes
\* -0.85 vn and its health decreases by |vn| * 0.03 * damage, up to the
\* rounding of the fixed-point numbers, whether or not the wall pass
\* eliminates the top.
C24_WallReflection ==
    sim.running =>
        \A i \in Alive :
            Dist(Integrate(sim.tops[i], settings))
                    > WallLimit(Integrate(sim.tops[i], settings)) =>
                Reflected(Integrate(sim.tops[i], settings),
                          WallPass(Integrate(sim.tops[i], settings), settings))

\* the wall pass resolves a top that hits the wall at more than 20 units per
\* second and stays alive, and one that it eliminates
C24_Witness ==
    /\ sim.running
    /\ op = "step"
    /\ \E i \in BeyondWall(Integrated) :
           /\ BeforePairs[i].alive
           /\ NormalSpeed(Integrated[i], Integrated[i]) > 20 * VelScale
    /\ \E k \in BeyondWall(Integrated) : ~BeforePairs[k].alive

\* C25: after the wall pass has resolved a top (alive and beyond the limit
\* after the integration), the velocity of the top has no outward normal
\* component, beyond the rounding of 4 / VelScale: it does not leave the
\* wall pass moving away from the centre of the arena, also when it entered
\* the pass moving inward.
C25_NoOutwardAfterWall ==
    \A i \in Alive :
        Dist(Integrate(sim.tops[i], settings))
                > WallLimit(Integrate(sim.tops[i], settings)) =>
            NormalSpeed(WallPass(Integrate(sim.tops[i], settings), settings),
                        Integrate(sim.tops[i], settings)) <= 4

\* r is w with the pair of the tops i and j resolved symmetrically: the sums
\* of the two positions, of the two velocities and of the two angular
\* velocities are those of w, both tops have lost the same health,
\* |relN| * 0.04 * damage to a thousandth, and no other top has changed
Symmetric(w, r, i, j) ==
    /\ r[i].x + r[j].x = w[i].x + w[j].x
    /\ r[i].y + r[j].y = w[i].y + w[j].y
    /\ r[i].vx + r[j].vx = w[i].vx + w[j].vx
    /\ r[i].vy + r[j].vy = w[i].vy + w[j].vy
    /\ r[i].vang + r[j].vang = w[i].vang + w[j].vang
    /\ w[i].hp - r[i].hp = w[j].hp - r[j].hp
    /\ Abs((w[i].hp - r[i].hp) * Milli
           - RDiv[Abs(AlongNormal(w[i], w[j], w[i], w[j])) * 40, VelScale]
                 * settings.damage) <= Milli
    /\ \A k \in 1..Len(w) : k \notin {i, j} => r[k] = w[k]

\* C26: resolving an overlapping pair of alive tops leaves the sum of their
\* velocities, the midpoint of their positions and the sum of their angular
\* velocities unchanged, and takes the same damage |relN| * 0.04 * damage
\* from both.
C26_PairSymmetric ==
    \A p \in Colliding(BeforePairs) :
        Symmetric(BeforePairs, Collide(BeforePairs, p[1], p[2], settings),
                  p[1], p[2])

\* two alive tops overlap, close in on each other and slide past each other,
\* so that the push, the impulse, the spin kick and the damage are all
\* different from 0
C26_Witness ==
    \E p \in Colliding(BeforePairs) :
        LET r == Collide(BeforePairs, p[1], p[2], settings)
        IN  /\ sim.running
            /\ Apart(BeforePairs[p[1]], BeforePairs[p[2]])
            /\ r[p[1]].hp < BeforePairs[p[1]].hp
            /\ r[p[1]].vang # BeforePairs[p[1]].vang
            /\ r[p[1]].vx # BeforePairs[p[1]].vx
            /\ Abs(r[p[1]].x - BeforePairs[p[1]].x)
               + Abs(r[p[1]].y - BeforePairs[p[1]].y) > 0

\* the pairs <<i, j>> with i < j <= n of one i, in increasing order of j
PairsOf(i, n) == [k \in 1..(n - i) |-> <<i, i + k>>]

\* the pairs ps examined one after the other, each once: a pair of alive
\* tops that overlap in the tops as the pairs before have left them is
\* resolved
RECURSIVE ResolveInOrder(_, _, _)
ResolveInOrder(tops, ps, k) ==
    IF k > Len(ps) THEN tops
    ELSE IF /\ tops[ps[k][1]].alive
            /\ tops[ps[k][2]].alive
            /\ Overlap(tops[ps[k][1]], tops[ps[k][2]])
         THEN ResolveInOrder(Collide(tops, ps[k][1], ps[k][2], settings),
                             ps, k + 1)
         ELSE ResolveInOrder(tops, ps, k + 1)

\* the pairs of i, then those of i + 1, and so on to the last top
RECURSIVE ResolveFrom(_, _)
ResolveFrom(tops, i) ==
    IF i >= Len(tops) THEN tops
    ELSE ResolveFrom(ResolveInOrder(tops, PairsOf(i, Len(tops)), 1), i + 1)

\* C27: in the step that follows in a running match, the pair pass examines
\* every unordered pair of distinct alive tops exactly once, in increasing
\* order of (i, j) with i < j over the list of tops, and tests the overlap of
\* a pair on the positions as corrected by all the pairs before it.
C27_PairsOnceInOrder ==
    sim.running =>
        PairPass(BeforePairs, 1, settings) = ResolveFrom(BeforePairs, 1)

\* in a running match a top overlaps two others after the wall pass, so
\* that the order of the pairs and the corrections of earlier pairs matter
C27_Witness ==
    /\ sim.running
    /\ op = "step"
    /\ \E p \in Colliding(BeforePairs), q \in Colliding(BeforePairs) :
           p[1] = q[1] /\ p[2] < q[2]

\* the tops w with the top j laid on the centre of the top i
Coincident(w, i, j) == [w EXCEPT ![j].x = w[i].x, ![j].y = w[i].y]

\* r is w with the pair of i and j resolved with the normal (0, 0): neither
\* top has moved and neither velocity has changed
ZeroNormal(w, r, i, j) ==
    \A k \in {i, j} :
        /\ r[k].x = w[k].x
        /\ r[k].y = w[k].y
        /\ r[k].vx = w[k].vx
        /\ r[k].vy = w[k].vy

\* C28: no collision computation divides by zero.  With arenaR >= topR + 4
\* the wall limit is not negative, so the distance the wall pass divides by
\* (that of an alive top beyond the limit) is strictly positive; and two
\* tops with the same centre are resolved with the normal (0, 0), which
\* leaves their positions and velocities as they are.
C28_NoDivisionByZero ==
    settings.arenaR >= settings.topR + 4 =>
        /\ \A i \in Alive :
               /\ WallLimit(Integrate(sim.tops[i], settings)) >= 0
               /\ Dist(Integrate(sim.tops[i], settings))
                      > WallLimit(Integrate(sim.tops[i], settings))
                  => Dist(Integrate(sim.tops[i], settings)) > 0
        /\ \A i \in Alive, j \in Alive :
               i < j =>
                   ZeroNormal(Coincident(sim.tops, i, j),
                              Collide(Coincident(sim.tops, i, j), i, j, settings),
                              i, j)

\* in a running match the wall pass resolves a top, and two alive tops with
\* different velocities are there to be laid on each other
C28_Witness ==
    /\ sim.running
    /\ op = "step"
    /\ BeyondWall(Integrated) # {}
    /\ \E i \in Alive, j \in Alive :
           i < j /\ sim.tops[i].vx # sim.tops[j].vx

\* C29: the tops of a spawn are a function of the roster, the settings and
\* the seed only: as long as no step has run since the last spawn, whatever
\* matches, steps and draws came before it, the tops and the generator are
\* those of spawnTops on a generator made from the seed, all tops are alive
\* with health 100 and radius topR, there is no winner, and every top is at
\* a distance strictly less than arenaR - topR - 6 from the centre.
C29_SpawnIsAFunction ==
    nticks = 0 =>
        /\ sim.tops = spawnTops(movies, settings).tops
        /\ rng = spawnTops(movies, settings).rng
        /\ sim.winner = Null
        /\ Len(sim.tops) = Len(movies)
        /\ \A i \in 1..Len(sim.tops) :
               /\ sim.tops[i].alive
               /\ sim.tops[i].hp = 100 * HpScale
               /\ sim.tops[i].r = settings.topR * PosScale
               /\ Dist(sim.tops[i])
                      < (settings.arenaR - settings.topR - 6) * PosScale

\* start() has spawned the tops of 3 movies or more and another frame loop
\* is still pending: this spawn is not the first one
C29_Witness ==
    /\ op = "start"
    /\ nticks = 0
    /\ sim.running
    /\ Len(sim.tops) >= 3
    /\ Len(raf) >= 2

\* C30: when a spin lands with removal mode on, the slice removed from the
\* list is the slice whose label is announced as the winner: the slice at
\* the landed index of the list captured at the start of the spin is in the
\* current list, and the list loses this slice and no other.
C30_RemovedIsTheWinner ==
    [][(op' = "landed" /\ stepCb # <<>> /\ stepCb[1].removalMode) =>
          \E k \in 1..Len(slices) :
              /\ slices[k] = stepCb[1].slices[LandedIdx(stepCb[1]) + 1]
              /\ slices[k].label = winner'
              /\ slices' = Remove(slices, k)]_vars
====
